---- MODULE Spec2Model ----
(***************************************************************************)
(* convert_model.py: build RRDBNet, load weights/RealESRGAN_x4.pth, switch *)
(* to eval mode, export model.onnx with torch.onnx.export, then run        *)
(* tensorflowjs_converter through os.system.                               *)
(*                                                                         *)
(* The script is one process.  Its environment is the weight file, the     *)
(* file model.onnx, the external converter process, a consumer that runs   *)
(* the exported artifact, and a signal that may kill the process.          *)
(***************************************************************************)
EXTENDS Integers, Sequences, FiniteSets, TLC

VARIABLES
    pc,               \* position of the script
    model,            \* the RRDBNet instance
    state_dict,       \* result of torch.load
    example,          \* the example input tensor's shape
    graph,            \* the traced graph's declared tensor shapes
    onnxFile,         \* the file model.onnx
    weightFile,       \* the file weights/RealESRGAN_x4.pth
    weightReads,      \* how many times the weight file was opened for reading
    filesWritten,     \* paths this process opened for writing
    onnxWritable,     \* whether model.onnx can be opened for writing
    opsRepresentable, \* whether every op of the network exists in the opset
    netScale,         \* spatial upscaling factor of the imported network
    error,            \* the exception that ended the run
    exitCode,         \* the process's exit status (-1 while it has none)
    trace,            \* the statements executed so far, in order
    conv,             \* the converter process
    convStatus,       \* the converter's exit status
    convCommands,     \* the commands the shell was given, as argv lists
    spawnCount,       \* how many times os.system was called
    killedAt,         \* where the process was when it was killed
    onnxAtStart,      \* model.onnx as it was when the script started
    probe             \* the last inference a consumer ran on the artifact

vars == <<pc, model, state_dict, example, graph, onnxFile, weightFile,
          weightReads, filesWritten, onnxWritable, opsRepresentable, netScale,
          error, exitCode, trace, conv, convStatus, convCommands, spawnCount,
          killedAt, onnxAtStart, probe>>

----------------------------------------------------------------------------
(* Bounds *)

\* Number of chunks the serialized graph is written in.
OnnxBytes == 2

\* A consumer probes the artifact with dimensions 1..MaxDim and the traced 64.
MaxDim == 3

----------------------------------------------------------------------------
(* Constants of the script *)

ONNX_PATH == "model.onnx"

num_in_ch == 3
num_out_ch == 3
num_feat == 64
num_block == 23
num_grow_ch == 32

example_shape == <<1, 3, 64, 64>>

opset_version == 11

\* Only the width declared dynamic on the input.
dynamic_axes_width_only == [input |-> {3}, output |-> {2, 3}]

\* dynamic_axes: tensor name -> the (0-based) axes declared dynamic
dynamic_axes == [input |-> {2, 3}, output |-> {2, 3}]

\* A dimension that is declared dynamic (a named, unsized axis).
Dyn == 0

----------------------------------------------------------------------------
(* The command string handed to os.system.  The literal is a sequence of   *)
(* pieces: words, single spaces, backslashes and newlines.                 *)

SP == "SPACE"
BSLASH == "BACKSLASH"
NL == "NEWLINE"

Indent == <<SP, SP, SP, SP, SP, SP, SP, SP>>
Continue == <<SP, BSLASH, NL>> \o Indent

cmd_literal ==
    <<"tensorflowjs_converter">> \o Continue
    \o <<"--input_format=tf_saved_model">> \o Continue
    \o <<"--output_format=tfjs_graph_model">> \o Continue
    \o <<"--signature_name=serving_default">> \o Continue
    \o <<"--saved_model_tags=serve">> \o Continue
    \o <<ONNX_PATH>> \o Continue
    \o <<"../public/models/real-esrgan">>

RECURSIVE PyScan(_, _)
PyScan(s, i) ==
    IF i > Len(s) THEN <<>>
    ELSE IF s[i] = BSLASH /\ i < Len(s) /\ s[i + 1] = NL
         THEN PyScan(s, i + 2)
         ELSE <<s[i]>> \o PyScan(s, i + 1)

\* A triple-quoted literal without the backslashes: the newlines stay.
PyStringValueKeepNewline(lit) == SelectSeq(lit, LAMBDA t : t # BSLASH)

\* Value of a non-raw Python string literal: backslash-newline is dropped.
PyStringValue(lit) == PyScan(lit, 1)

EndWord(word, words) == IF word = <<>> THEN words ELSE Append(words, word)
EndCommand(words, cmds) == IF words = <<>> THEN cmds ELSE Append(cmds, words)

RECURSIVE ShellScan(_, _, _, _, _)
ShellScan(s, i, word, words, cmds) ==
    IF i > Len(s) THEN EndCommand(EndWord(word, words), cmds)
    ELSE IF s[i] = BSLASH /\ i < Len(s) /\ s[i + 1] = NL
         THEN ShellScan(s, i + 2, word, words, cmds)
    ELSE IF s[i] = SP
         THEN ShellScan(s, i + 1, <<>>, EndWord(word, words), cmds)
    ELSE IF s[i] = NL
         THEN ShellScan(s, i + 1, <<>>, <<>>,
                        EndCommand(EndWord(word, words), cmds))
    ELSE ShellScan(s, i + 1, Append(word, s[i]), words, cmds)

\* sh -c <string>: the commands run, each a list of words; a word is the
\* list of the pieces it is concatenated from.
ShellParse(s) == ShellScan(s, 1, <<>>, <<>>, <<>>)

\* What os.system(cmd_literal) makes the shell run.
system_commands == ShellParse(PyStringValue(cmd_literal))

----------------------------------------------------------------------------
(* Shapes and the exported graph's declared signature *)

Axes == 0 .. 3

\* Shape a tensor is declared with: an axis named in dynamic_axes is
\* unsized, every other axis is fixed at the size seen while tracing.
DeclaredShape(name, traced) ==
    [a \in 1 .. 4 |-> IF (a - 1) \in dynamic_axes[name] THEN Dyn ELSE traced[a]]

\* Output shape of the network on an input of shape x: same batch,
\* num_out_ch channels, both spatial sizes scaled.
Forward(m, x, scale) == <<x[1], m.num_out_ch, scale * x[3], scale * x[4]>>

Conforms(shape, declared) ==
    \A a \in 1 .. 4 : declared[a] = Dyn \/ declared[a] = shape[a]

NoGraph == [input |-> <<>>, output |-> <<>>, opset |-> 0]
NoModel == [params |-> "none", training |-> TRUE,
            num_in_ch |-> 0, num_out_ch |-> 0, num_feat |-> 0,
            num_block |-> 0, num_grow_ch |-> 0]
NoFile == [origin |-> "none", bytes |-> 0, sig |-> NoGraph]
NoProbe == [shape |-> <<>>, accepted |-> FALSE, out |-> <<>>]

Dims == (1 .. MaxDim) \cup {example_shape[3]}
Shapes == {<<b, c, h, w>> : b \in 1 .. MaxDim, c \in 1 .. MaxDim, h \in Dims, w \in Dims}

WeightFiles == {"missing", "unreadable", "mismatch", "ok"}
PriorFiles == {NoFile} \cup {[origin |-> "prior", bytes |-> n, sig |-> NoGraph] : n \in 0 .. OnnxBytes}
ConvStatuses == {0, 1, 127}
Scales == {1, 2, 4}

Terminal == {"done", "aborted", "killed"}

----------------------------------------------------------------------------
(* The state when the interpreter starts the script *)

Init ==
    /\ pc = "start"
    /\ model = NoModel
    /\ state_dict = "none"
    /\ example = <<>>
    /\ graph = NoGraph
    /\ onnxFile \in PriorFiles
    /\ onnxAtStart = onnxFile
    /\ weightFile \in WeightFiles
    /\ weightReads = 0
    /\ filesWritten = {}
    /\ onnxWritable \in BOOLEAN
    /\ opsRepresentable \in BOOLEAN
    /\ netScale \in Scales
    /\ error = "none"
    /\ exitCode = -1
    /\ trace = <<>>
    /\ conv = "notspawned"
    /\ convStatus = -1
    /\ convCommands = <<>>
    /\ spawnCount = 0
    /\ killedAt = "none"
    /\ probe = NoProbe

envVars == <<weightFile, onnxWritable, opsRepresentable, netScale, onnxAtStart>>
convVars == <<conv, convStatus, convCommands, spawnCount>>

----------------------------------------------------------------------------
(* An exception nobody catches: the traceback is printed and the           *)
(* interpreter exits with status 1.                                        *)

\* An except clause around the call that lets the script go on to os.system.
OnErrorSwallow(e) ==
    /\ pc' = "exported"
    /\ error' = e
    /\ exitCode' = exitCode

\* A retry loop around the call.
OnErrorRetry(e) ==
    /\ pc' = "start"
    /\ error' = e
    /\ exitCode' = exitCode

OnError(e) ==
    /\ pc' = "aborted"
    /\ error' = e
    /\ exitCode' = 1

----------------------------------------------------------------------------
(* convert_to_onnx *)

Build ==
    /\ pc = "start"
    /\ model' = [params |-> "random", training |-> TRUE,
                 num_in_ch |-> num_in_ch, num_out_ch |-> num_out_ch,
                 num_feat |-> num_feat, num_block |-> num_block,
                 num_grow_ch |-> num_grow_ch]
    /\ trace' = Append(trace, "build")
    /\ pc' = "built"
    /\ UNCHANGED <<state_dict, example, graph, onnxFile, weightReads,
                   filesWritten, error, exitCode, killedAt, probe>>
    /\ UNCHANGED <<envVars, convVars>>

TorchLoad ==
    /\ pc = "built"
    /\ weightReads' = weightReads + 1
    /\ trace' = Append(trace, "torch_load")
    /\ CASE weightFile = "missing" ->
              /\ OnError("FileNotFoundError")
              /\ UNCHANGED state_dict
         [] weightFile = "unreadable" ->
              /\ OnError("UnpicklingError")
              /\ UNCHANGED state_dict
         [] OTHER ->
              /\ state_dict' = weightFile
              /\ pc' = "read"
              /\ UNCHANGED <<error, exitCode>>
    /\ UNCHANGED <<model, example, graph, onnxFile, filesWritten, killedAt, probe>>
    /\ UNCHANGED <<envVars, convVars>>

\* load_state_dict(strict=False): a mismatch is reported, not raised.
LoadStateDictLenient ==
    /\ pc = "read"
    /\ trace' = Append(trace, "load_state_dict")
    /\ model' = [model EXCEPT !.params = IF state_dict = "ok" THEN "loaded" ELSE "partial"]
    /\ pc' = "loaded"
    /\ UNCHANGED <<error, exitCode>>
    /\ UNCHANGED <<state_dict, example, graph, onnxFile, weightReads,
                   filesWritten, killedAt, probe>>
    /\ UNCHANGED <<envVars, convVars>>

\* load_state_dict is strict by default: the tensors that match are copied
\* in, and missing, unexpected or mis-shaped keys raise RuntimeError.
LoadStateDict ==
    /\ pc = "read"
    /\ trace' = Append(trace, "load_state_dict")
    /\ IF state_dict = "ok"
       THEN /\ model' = [model EXCEPT !.params = "loaded"]
            /\ pc' = "loaded"
            /\ UNCHANGED <<error, exitCode>>
       ELSE /\ model' = [model EXCEPT !.params = "partial"]
            /\ OnError("RuntimeError")
    /\ UNCHANGED <<state_dict, example, graph, onnxFile, weightReads,
                   filesWritten, killedAt, probe>>
    /\ UNCHANGED <<envVars, convVars>>

\* The call model.eval() left out.
EvalMissing ==
    /\ pc = "loaded"
    /\ trace' = Append(trace, "eval")
    /\ pc' = "eval"
    /\ UNCHANGED <<model, state_dict, example, graph, onnxFile, weightReads,
                   filesWritten, error, exitCode, killedAt, probe>>
    /\ UNCHANGED <<envVars, convVars>>

Eval ==
    /\ pc = "loaded"
    /\ model' = [model EXCEPT !.training = FALSE]
    /\ trace' = Append(trace, "eval")
    /\ pc' = "eval"
    /\ UNCHANGED <<state_dict, example, graph, onnxFile, weightReads,
                   filesWritten, error, exitCode, killedAt, probe>>
    /\ UNCHANGED <<envVars, convVars>>

MakeExample ==
    /\ pc = "eval"
    /\ example' = example_shape
    /\ trace' = Append(trace, "example")
    /\ pc' = "example"
    /\ UNCHANGED <<model, state_dict, graph, onnxFile, weightReads,
                   filesWritten, error, exitCode, killedAt, probe>>
    /\ UNCHANGED <<envVars, convVars>>

\* torch.onnx.export, first part: trace the model on the example and build
\* the graph in memory.  Nothing is written yet.
ExportTrace ==
    /\ pc = "example"
    /\ trace' = Append(trace, "export")
    /\ IF opsRepresentable
       THEN /\ graph' = [input |-> DeclaredShape("input", example),
                         output |-> DeclaredShape("output", Forward(model, example, netScale)),
                         opset |-> opset_version]
            /\ pc' = "traced"
            /\ UNCHANGED <<error, exitCode>>
       ELSE /\ OnError("UnsupportedOperatorError")
            /\ UNCHANGED graph
    /\ UNCHANGED <<model, state_dict, example, onnxFile, weightReads,
                   filesWritten, killedAt, probe>>
    /\ UNCHANGED <<envVars, convVars>>

\* An exporter that keeps a file that is already there.
ExportOpenIfAbsent ==
    /\ pc = "traced"
    /\ IF onnxFile # NoFile
       THEN /\ pc' = "exported"
            /\ UNCHANGED <<onnxFile, filesWritten, error, exitCode>>
       ELSE IF onnxWritable
       THEN /\ onnxFile' = [origin |-> "run", bytes |-> 0, sig |-> graph]
            /\ filesWritten' = filesWritten \cup {ONNX_PATH}
            /\ pc' = "writing"
            /\ UNCHANGED <<error, exitCode>>
       ELSE /\ OnError("PermissionError")
            /\ UNCHANGED <<onnxFile, filesWritten>>
    /\ UNCHANGED <<model, state_dict, example, graph, weightReads, trace,
                   killedAt, onnxAtStart, probe>>
    /\ UNCHANGED <<envVars, convVars>>

\* torch.onnx.export, second part: open 'model.onnx' for writing, which
\* creates it or truncates what is there.
ExportOpen ==
    /\ pc = "traced"
    /\ IF onnxWritable
       THEN /\ onnxFile' = [origin |-> "run", bytes |-> 0, sig |-> graph]
            /\ filesWritten' = filesWritten \cup {ONNX_PATH}
            /\ pc' = "writing"
            /\ UNCHANGED <<error, exitCode>>
       ELSE /\ OnError("PermissionError")
            /\ UNCHANGED <<onnxFile, filesWritten>>
    /\ UNCHANGED <<model, state_dict, example, graph, weightReads, trace,
                   killedAt, onnxAtStart, probe>>
    /\ UNCHANGED <<envVars, convVars>>

\* One chunk of the serialized graph reaches the file.
ExportWrite ==
    /\ pc = "writing"
    /\ onnxFile.bytes < OnnxBytes
    /\ onnxFile' = [onnxFile EXCEPT !.bytes = @ + 1]
    /\ UNCHANGED <<pc, model, state_dict, example, graph, weightReads,
                   filesWritten, error, exitCode, trace, killedAt, probe>>
    /\ UNCHANGED <<envVars, convVars>>

\* A write fails (the disk is full): OSError, the file stays as far as it got.
ExportWriteFail ==
    /\ pc = "writing"
    /\ onnxFile.bytes < OnnxBytes
    /\ OnError("OSError")
    /\ UNCHANGED <<model, state_dict, example, graph, onnxFile, weightReads,
                   filesWritten, trace, killedAt, probe>>
    /\ UNCHANGED <<envVars, convVars>>

\* The file is closed and torch.onnx.export, then convert_to_onnx, return.
ExportClose ==
    /\ pc = "writing"
    /\ onnxFile.bytes = OnnxBytes
    /\ pc' = "exported"
    /\ UNCHANGED <<model, state_dict, example, graph, onnxFile, weightReads,
                   filesWritten, error, exitCode, trace, killedAt, probe>>
    /\ UNCHANGED <<envVars, convVars>>

----------------------------------------------------------------------------
(* __main__: os.system *)

\* os.system: the shell is started on the command string and the script
\* waits for it.
SystemSpawn ==
    /\ pc = "exported"
    /\ conv' = "running"
    /\ spawnCount' = spawnCount + 1
    /\ convCommands' = system_commands
    /\ trace' = Append(trace, "system")
    /\ pc' = "waiting"
    /\ UNCHANGED <<model, state_dict, example, graph, onnxFile, weightReads,
                   filesWritten, error, exitCode, convStatus, killedAt, probe>>
    /\ UNCHANGED envVars

\* subprocess.Popen without wait: the script goes on at once.
SystemReturnNoWait ==
    /\ pc = "waiting"
    /\ pc' = "done"
    /\ exitCode' = 0
    /\ UNCHANGED <<model, state_dict, example, graph, onnxFile, weightReads,
                   filesWritten, error, trace, killedAt, probe>>
    /\ UNCHANGED <<envVars, convVars>>

\* sys.exit(os.system(...)): the converter's status becomes the script's.
SystemReturnChecked ==
    /\ pc = "waiting"
    /\ conv = "exited"
    /\ pc' = "done"
    /\ exitCode' = IF convStatus = 0 THEN 0 ELSE 1
    /\ UNCHANGED <<model, state_dict, example, graph, onnxFile, weightReads,
                   filesWritten, error, trace, killedAt, probe>>
    /\ UNCHANGED <<envVars, convVars>>

\* os.system returns once the shell has exited; its return value is
\* dropped, the script reaches its end and the interpreter exits with 0.
SystemReturn ==
    /\ pc = "waiting"
    /\ conv = "exited"
    /\ pc' = "done"
    /\ exitCode' = 0
    /\ UNCHANGED <<model, state_dict, example, graph, onnxFile, weightReads,
                   filesWritten, error, trace, killedAt, probe>>
    /\ UNCHANGED <<envVars, convVars>>

----------------------------------------------------------------------------
(* The environment *)

\* The shell and the converter exit with some status.
ConverterExit ==
    /\ conv = "running"
    /\ \E st \in ConvStatuses : convStatus' = st
    /\ conv' = "exited"
    /\ UNCHANGED <<pc, model, state_dict, example, graph, onnxFile,
                   weightReads, filesWritten, error, exitCode, trace,
                   convCommands, spawnCount, killedAt, probe>>
    /\ UNCHANGED envVars

\* The process is killed.  It runs no handler: there is no try/finally, no
\* atexit hook and no signal handler in the script.
KillWithCleanup ==
    /\ pc \notin Terminal
    /\ killedAt' = pc
    /\ pc' = "killed"
    /\ onnxFile' = IF onnxFile.origin = "run" /\ onnxFile.bytes < OnnxBytes
                   THEN NoFile ELSE onnxFile
    /\ UNCHANGED <<model, state_dict, example, graph, weightReads,
                   filesWritten, error, exitCode, trace, probe>>
    /\ UNCHANGED <<envVars, convVars>>

Kill ==
    /\ pc \notin Terminal
    /\ killedAt' = pc
    /\ pc' = "killed"
    /\ UNCHANGED <<model, state_dict, example, graph, onnxFile, weightReads,
                   filesWritten, error, exitCode, trace, probe>>
    /\ UNCHANGED <<envVars, convVars>>

\* What an ONNX runtime does with an input of shape x on a graph whose
\* declared tensor shapes are sig.
RunArtifact(sig, x, scale) ==
    IF Conforms(x, sig.input)
    THEN [shape |-> x, accepted |-> TRUE,
          out |-> <<x[1], num_out_ch, scale * x[3], scale * x[4]>>]
    ELSE [shape |-> x, accepted |-> FALSE, out |-> <<>>]

\* A consumer loads the complete artifact and runs it on some input.  One
\* inference is observed; inferences do not influence each other.
Infer ==
    /\ probe = NoProbe
    /\ onnxFile.origin = "run"
    /\ onnxFile.bytes = OnnxBytes
    /\ \E x \in Shapes : probe' = RunArtifact(onnxFile.sig, x, netScale)
    /\ UNCHANGED <<pc, model, state_dict, example, graph, onnxFile,
                   weightReads, filesWritten, error, exitCode, trace, killedAt>>
    /\ UNCHANGED <<envVars, convVars>>

----------------------------------------------------------------------------
(* Specifications *)

ProgramStep ==
    \/ Build
    \/ TorchLoad
    \/ LoadStateDict
    \/ Eval
    \/ MakeExample
    \/ ExportTrace
    \/ ExportOpen
    \/ ExportWrite
    \/ ExportWriteFail
    \/ ExportClose
    \/ SystemSpawn
    \/ SystemReturn

Next ==
    \/ ProgramStep
    \/ ConverterExit
    \/ Kill
    \/ Infer

Spec == Init /\ [][Next]_vars

\* The script left alone: nobody kills it.  Every statement that can run
\* does run; nothing is assumed of the converter.
NextRun ==
    \/ ProgramStep
    \/ ConverterExit

FairRun == Init /\ [][NextRun]_vars /\ WF_vars(ProgramStep)

----------------------------------------------------------------------------
(* Properties *)

Range(s) == {s[i] : i \in 1 .. Len(s)}
IsPrefix(s, t) == Len(s) <= Len(t) /\ s = SubSeq(t, 1, Len(s))

\* The statements of the script in program order.
Statements == <<"build", "torch_load", "load_state_dict", "eval", "example",
                "export", "system">>

LoadErrors == {"FileNotFoundError", "UnpicklingError", "RuntimeError"}
ExportErrors == {"UnsupportedOperatorError", "PermissionError", "OSError"}

\* The converter command of the documentation, word by word.
DocumentedArgv == <<"tensorflowjs_converter",
                    "--input_format=tf_saved_model",
                    "--output_format=tfjs_graph_model",
                    "--signature_name=serving_default",
                    "--saved_model_tags=serve",
                    "model.onnx",
                    "../public/models/real-esrgan">>
DocumentedCommand == [i \in 1 .. Len(DocumentedArgv) |-> <<DocumentedArgv[i]>>]

CompleteArtifact(f) == f.origin = "run" /\ f.bytes = OnnxBytes /\ f.bytes > 0

\* C1: when the weight file is missing, unreadable or does not match the
\* architecture, the run never gets past the load statements: the export is
\* never started, this run writes no file and leaves model.onnx as it was,
\* the converter is never invoked, and an aborted run ended in a load error.
C1_LoadFailureStopsRun ==
    weightFile # "ok" =>
        /\ pc \in {"start", "built", "read", "aborted", "killed"}
        /\ "export" \notin Range(trace)
        /\ "system" \notin Range(trace)
        /\ filesWritten = {}
        /\ onnxFile = onnxAtStart
        /\ spawnCount = 0
        /\ conv = "notspawned"
        /\ (pc = "aborted" => error \in LoadErrors /\ exitCode = 1)

C1_Witness ==
    /\ weightFile = "mismatch"
    /\ pc = "aborted"
    /\ error = "RuntimeError"
    /\ trace = <<"build", "torch_load", "load_state_dict">>

\* C2: when torch.onnx.export raises (unsupported operator, model.onnx not
\* writable, a failed write), the process has aborted and os.system was
\* never called: no shell command was issued and no converter exists.
C2_ExportFailureNoConverter ==
    error \in ExportErrors =>
        /\ pc = "aborted"
        /\ spawnCount = 0
        /\ conv = "notspawned"
        /\ convCommands = <<>>
        /\ "system" \notin Range(trace)

C2_Witness ==
    /\ error = "PermissionError"
    /\ pc = "aborted"
    /\ ~onnxWritable
    /\ "export" \in Range(trace)

\* C3: whatever status the converter exits with, the script ends the same
\* way: exit status 0, no error, every statement executed once.
C3_ConverterStatusIgnored ==
    pc = "done" =>
        /\ conv = "exited"
        /\ convStatus \in ConvStatuses
        /\ exitCode = 0
        /\ error = "none"
        /\ trace = Statements

C3_Witness ==
    /\ pc = "done"
    /\ convStatus = 127
    /\ exitCode = 0

\* C4: the statements run in program order, each at most once (the
\* statements executed so far are always a prefix of the program), and
\* after an error or at the end nothing runs again.
C4_StrictlySequential ==
    /\ [](IsPrefix(trace, Statements))
    /\ [][(error # "none" \/ pc \in Terminal) => (trace' = trace /\ pc' = pc)]_vars

C4_Witness ==
    /\ pc = "done"
    /\ trace = Statements

\* C5: os.system is called at most once, only with a well-formed weight
\* file and a complete, non-empty model.onnx written by this run, and the
\* shell is given exactly one command whose words are the documented ones; a
\* run that reaches its end has called it exactly once.
C5_OneDocumentedConverterCall ==
    /\ spawnCount > 0 =>
          /\ spawnCount = 1
          /\ weightFile = "ok"
          /\ CompleteArtifact(onnxFile)
          /\ convCommands = <<DocumentedCommand>>
    /\ pc = "done" => spawnCount = 1

C5_Witness ==
    /\ pc = "done"
    /\ spawnCount = 1
    /\ convCommands = <<DocumentedCommand>>
    /\ CompleteArtifact(onnxFile)

DynamicAxesOf(declared) == {a \in Axes : declared[a + 1] = Dyn}

C7_FilesTouched ==
    /\ [](weightReads <= 1)
    /\ [][weightFile' = weightFile]_vars
    /\ [](filesWritten \subseteq {ONNX_PATH})
    /\ [][onnxFile' # onnxFile => ONNX_PATH \in filesWritten']_vars
    /\ [](pc \in {"writing", "exported", "waiting", "done"} => onnxFile.origin = "run")
    /\ [](pc \in {"exported", "waiting", "done"} => CompleteArtifact(onnxFile))

C7_Witness ==
    /\ pc = "exported"
    /\ onnxAtStart.origin = "prior"
    /\ onnxAtStart.bytes = OnnxBytes
    /\ onnxFile.origin = "run"
    /\ weightReads = 1

\* C8: once the export has started the parameters are the loaded ones and
\* the model is in eval mode; the model is in eval mode only with loaded
\* parameters.
C8_ExportSeesLoadedEvalModel ==
    /\ "export" \in Range(trace) => (model.params = "loaded" /\ ~model.training)
    /\ ~model.training => model.params = "loaded"

C8_Witness ==
    /\ pc = "traced"
    /\ model.params = "loaded"
    /\ ~model.training

ExportPcs == {"traced", "writing"}

\* C9: a kill changes nothing but the process, and a killed process does
\* nothing more: model.onnx stays as the kill found it (absent, old,
\* truncated or complete) and no command is issued; a process killed during
\* the export never called os.system.
C9_KillLeavesFile ==
    /\ [][(pc = "killed" \/ pc' = "killed") =>
            (pc' = "killed" /\ onnxFile' = onnxFile /\ spawnCount' = spawnCount)]_vars
    /\ [](killedAt \in ExportPcs => (pc = "killed" /\ spawnCount = 0 /\ conv = "notspawned"))

C9_Witness ==
    /\ pc = "killed"
    /\ killedAt = "writing"
    /\ onnxFile.origin = "run"
    /\ onnxFile.bytes < OnnxBytes

\* C10: the script leaves os.system only when the converter has exited, and
\* then it ends; while the converter runs it stays there; once the converter
\* has exited the script does end; and waiting for a running converter is the
\* only place where the script has no step to take.
C10_BlocksOnConverter ==
    /\ [][(pc = "waiting" /\ pc' # "waiting") => (conv = "exited" /\ pc' = "done")]_vars
    /\ [](pc = "done" => conv = "exited")
    /\ (conv = "exited") ~> (pc = "done")
    /\ []((pc \notin Terminal /\ ~ENABLED ProgramStep) => (pc = "waiting" /\ conv = "running"))

C10_Witness ==
    /\ pc = "done"
    /\ conv = "exited"
    /\ spawnCount = 1

====
